---- MODULE Spec2Model ----
(***************************************************************************)
(* NAS-backup: the receiver (host/app.py, a Flask service that stores      *)
(* files under UPLOAD_FOLDER) and the desktop client (client/app.py) that  *)
(* mirrors tracked files and directories to it.                            *)
(*                                                                         *)
(* A string is a sequence of one-character strings, so that the path      *)
(* arithmetic of the code (replace, lstrip, normpath, startswith, join)    *)
(* is computed character by character.  The receiver runs on POSIX         *)
(* (os.sep = "/"); its filesystem holds regular files and directories and  *)
(* no symbolic links (no handler creates one), so realpath is abspath.     *)
(***************************************************************************)
EXTENDS Integers, Sequences, FiniteSets, TLC

(***************************************************************************)
(* Strings                                                                 *)
(***************************************************************************)
SLASH == "/"
BSLASH == "\\"
DOT == "."

\* str.startswith
StartsWith(s, pre) ==
  /\ Len(pre) <= Len(s)
  /\ SubSeq(s, 1, Len(pre)) = pre

\* str.endswith
EndsWith(s, suf) ==
  /\ Len(suf) <= Len(s)
  /\ SubSeq(s, Len(s) - Len(suf) + 1, Len(s)) = suf

\* str.replace for one-character patterns
Replace(s, old, new) == [i \in 1..Len(s) |-> IF s[i] = old THEN new ELSE s[i]]

RECURSIVE LStrip(_, _)
\* str.lstrip(chars)
LStrip(s, chars) ==
  IF s /= <<>> /\ Head(s) \in chars THEN LStrip(Tail(s), chars) ELSE s

RECURSIVE RStrip(_, _)
\* str.rstrip(chars)
RStrip(s, chars) ==
  IF s /= <<>> /\ s[Len(s)] \in chars
  THEN RStrip(SubSeq(s, 1, Len(s) - 1), chars)
  ELSE s

\* str.strip(chars)
Strip(s, chars) == LStrip(RStrip(s, chars), chars)

RECURSIVE SplitAcc(_, _, _)
SplitAcc(s, sep, cur) ==
  IF s = <<>> THEN <<cur>>
  ELSE IF Head(s) = sep THEN <<cur>> \o SplitAcc(Tail(s), sep, <<>>)
  ELSE SplitAcc(Tail(s), sep, Append(cur, Head(s)))

\* str.split(sep): the fields between the separators, empty fields kept
Split(s, sep) == SplitAcc(s, sep, <<>>)

RECURSIVE Join(_, _)
\* sep.join(parts)
Join(parts, sep) ==
  IF parts = <<>> THEN <<>>
  ELSE IF Len(parts) = 1 THEN parts[1]
  ELSE parts[1] \o sep \o Join(Tail(parts), sep)

\* the index of the last occurrence of c in s, 0 when there is none (str.rfind + 1)
Last(hits) == IF hits = {} THEN 0 ELSE CHOOSE i \in hits : \A j \in hits : j <= i
RFind(s, c) == Last({i \in 1..Len(s) : s[i] = c})

LOWER == [c \in {"U", "P", "L", "O", "A", "D"} |->
            CASE c = "U" -> "u" [] c = "P" -> "p" [] c = "L" -> "l"
              [] c = "O" -> "o" [] c = "A" -> "a" [] c = "D" -> "d"]

\* str.lower
Lower(s) == [i \in 1..Len(s) |-> IF s[i] \in DOMAIN LOWER THEN LOWER[s[i]] ELSE s[i]]

(***************************************************************************)
(* posixpath                                                               *)
(***************************************************************************)
PARENT == <<DOT, DOT>>

RECURSIVE NormComps(_, _, _)
\* the loop of posixpath.normpath over the components
NormComps(comps, initial_slashes, new_comps) ==
  IF comps = <<>> THEN new_comps
  ELSE
    LET comp == Head(comps)
        rest == Tail(comps)
    IN IF comp = <<>> \/ comp = <<DOT>>
       THEN NormComps(rest, initial_slashes, new_comps)
       ELSE IF \/ comp /= PARENT
               \/ (initial_slashes = 0 /\ new_comps = <<>>)
               \/ (new_comps /= <<>> /\ new_comps[Len(new_comps)] = PARENT)
            THEN NormComps(rest, initial_slashes, Append(new_comps, comp))
            ELSE IF new_comps /= <<>>
                 THEN NormComps(rest, initial_slashes,
                                SubSeq(new_comps, 1, Len(new_comps) - 1))
                 ELSE NormComps(rest, initial_slashes, new_comps)

\* the count of leading slashes normpath keeps: 0, 1, or 2 for exactly two
InitialSlashes(path) ==
  IF ~StartsWith(path, <<SLASH>>) THEN 0
  ELSE IF StartsWith(path, <<SLASH, SLASH>>) /\ ~StartsWith(path, <<SLASH, SLASH, SLASH>>)
       THEN 2 ELSE 1

\* path or '.'
OrDot(path) == IF path = <<>> THEN <<DOT>> ELSE path

NormWith(path, initial_slashes) ==
  OrDot([i \in 1..initial_slashes |-> SLASH]
        \o Join(NormComps(Split(path, SLASH), initial_slashes, <<>>), <<SLASH>>))

\* os.path.normpath
normpath(path) ==
  IF path = <<>> THEN <<DOT>> ELSE NormWith(path, InitialSlashes(path))

\* os.path.isabs
isabs(path) == StartsWith(path, <<SLASH>>)

\* os.path.join(a, b)
join(a, b) ==
  IF StartsWith(b, <<SLASH>>) THEN b
  ELSE IF a = <<>> \/ EndsWith(a, <<SLASH>>) THEN a \o b
  ELSE a \o <<SLASH>> \o b

\* the head of os.path.split, stripped of trailing slashes unless it is all
\* slashes
SplitHead(head) ==
  IF head /= <<>> /\ head /= [k \in 1..Len(head) |-> SLASH]
  THEN RStrip(head, {SLASH}) ELSE head

\* os.path.dirname
dirname(p) == SplitHead(SubSeq(p, 1, RFind(p, SLASH)))

\* os.path.basename
basename(p) == SubSeq(p, RFind(p, SLASH) + 1, Len(p))

\* the working directory of the receiver process
CWD == <<"/", "s", "r", "v">>

\* os.path.realpath on a filesystem without symbolic links: abspath
_realpath(path) == normpath(join(CWD, path))

(***************************************************************************)
(* The receiver's filesystem: regular files with their size in bytes, and  *)
(* directories, both keyed by absolute path.                               *)
(***************************************************************************)
\* host/app.py: UPLOAD_FOLDER = './backup'
UPLOAD_FOLDER == <<".", "/", "b", "a", "c", "k", "u", "p">>

\* host/app.py: MAX_CONTENT_LENGTH = 16 * 1024 * 1024
MAX_CONTENT_LENGTH == 16 * 1024 * 1024

\* a parameter the request does not carry (request.form.get(...) is None)
NONE == <<"<None>">>

exists(fs, p) == p \in DOMAIN fs.files \/ p \in fs.dirs
isfile(fs, p) == p \in DOMAIN fs.files
isdir(fs, p) == p \in fs.dirs

\* writing `size` bytes to the regular file p (open(p, 'wb') and write)
WriteFile(fs, p, size) ==
  [fs EXCEPT !.files = [q \in DOMAIN fs.files \cup {p} |->
                          IF q = p THEN size ELSE fs.files[q]]]

\* os.remove of a regular file
remove(fs, p) ==
  [fs EXCEPT !.files = [q \in DOMAIN fs.files \ {p} |-> fs.files[q]]]

RECURSIVE makedirs(_, _)

\* the mkdir of the leaf, once the directories above it have been made
MakeLeaf(up, name, head) ==
  IF ~up.ok \/ ~isdir(up.fs, head) THEN [ok |-> FALSE, fs |-> up.fs]
  ELSE [ok |-> TRUE, fs |-> [up.fs EXCEPT !.dirs = @ \cup {name}]]

MakeUnder(fs, name, head) ==
  MakeLeaf(IF head /= name /\ ~exists(fs, head)
           THEN makedirs(fs, head) ELSE [ok |-> TRUE, fs |-> fs],
           name, head)

\* os.makedirs(name, exist_ok=True): ok is FALSE when it raises (a regular
\* file stands where a directory is needed)
makedirs(fs, name) ==
  IF isdir(fs, name) THEN [ok |-> TRUE, fs |-> fs]
  ELSE IF isfile(fs, name) THEN [ok |-> FALSE, fs |-> fs]
  ELSE MakeUnder(fs, name, dirname(name))

\* the receiver's filesystem when the service has started: line 28 has made
\* UPLOAD_FOLDER
EmptyFs ==
  makedirs([files |-> [q \in {} |-> 0], dirs |-> {<<SLASH>>, CWD}], _realpath(UPLOAD_FOLDER)).fs

(***************************************************************************)
(* host/app.py: the path resolver                                          *)
(***************************************************************************)
\* raise ValueError(msg)
ValueError(msg) == [ok |-> FALSE, error |-> msg, full |-> NONE, norm |-> NONE]

\* lines 61-65: the containment test on the canonical path
Contained(base, full, norm) ==
  IF full /= base /\ ~StartsWith(full, base \o <<SLASH>>)
  THEN ValueError("path escapes upload folder")
  ELSE [ok |-> TRUE, error |-> "", full |-> full, norm |-> Replace(norm, BSLASH, SLASH)]

\* lines 55-59: the test on the normalized path
Normalized(norm, base) ==
  IF norm = <<>> \/ norm = <<DOT>> \/ StartsWith(norm, PARENT) \/ isabs(norm)
  THEN ValueError("invalid relative path")
  ELSE Contained(base, _realpath(join(base, norm)), norm)

resolve_path_under_upload(rel_path) ==
  IF rel_path = NONE THEN ValueError("path is required")
  ELSE Normalized(normpath(LStrip(Replace(rel_path, BSLASH, SLASH), {SLASH})),
                  _realpath(UPLOAD_FOLDER))

(***************************************************************************)
(* host/app.py: the request handlers.  A handler is an operator from the   *)
(* filesystem and the request's parameters to its reply: the HTTP status,  *)
(* the JSON body's success and files, the filesystem it leaves, and the    *)
(* filesystem path it worked on (NONE when it answered before any).        *)
(***************************************************************************)
Reply(status, success, fs, target, files) ==
  [status |-> status, success |-> success, fs |-> fs, target |-> target,
   files |-> files]

\* characters werkzeug's secure_filename deletes: all but [A-Za-z0-9_.-]
UnsafeChars == {BSLASH, " ", SLASH}

NonEmpty(field) == field /= <<>>
Safe(c) == c \notin UnsafeChars

\* werkzeug.utils.secure_filename on POSIX: the separator becomes a blank,
\* blank-separated words are joined by "_", the unsafe characters are
\* deleted, leading and trailing "." and "_" are stripped
secure_filename(filename) ==
  LET spaced == Replace(filename, SLASH, " ")
      words == SelectSeq(Split(spaced, " "), NonEmpty)
      ascii == SelectSeq(Join(words, <<"_">>), Safe)
  IN Strip(ascii, {DOT, "_"})

\* open(p, 'wb') and the write, p absolute
SaveAt(fs, p, size) ==
  IF isdir(fs, p) \/ ~isdir(fs, dirname(p))
  THEN Reply(500, FALSE, fs, p, <<>>)
  ELSE Reply(200, TRUE, WriteFile(fs, p, size), p, <<>>)

\* file.save(filepath) and os.path.getsize(filepath), lines 128-151
save(fs, filepath, size) == SaveAt(fs, _realpath(filepath), size)

\* lines 113-119 and on: md is what os.makedirs did
UploadInto(md, full, size) ==
  IF ~md.ok THEN Reply(400, FALSE, md.fs, full, <<>>)
  ELSE save(md.fs, full, size)

\* lines 110-119: r is what the resolver returned
UploadResolved(fs, r, size) ==
  IF ~r.ok THEN Reply(400, FALSE, fs, NONE, <<>>)
  ELSE UploadInto(makedirs(fs, dirname(r.full)), r.full, size)

\* POST /upload: filename is the name of the 'file' part (NONE without the
\* part), relative_path the form field (NONE when absent), size the length
\* of the content
upload_file(fs, filename, relative_path, size) ==
  IF size > MAX_CONTENT_LENGTH THEN Reply(413, FALSE, fs, NONE, <<>>)
  ELSE IF filename = NONE THEN Reply(400, FALSE, fs, NONE, <<>>)
  ELSE IF filename = <<>> THEN Reply(400, FALSE, fs, NONE, <<>>)
  ELSE IF relative_path /= NONE /\ relative_path /= <<>>
    THEN UploadResolved(fs, resolve_path_under_upload(relative_path), size)
    ELSE save(fs, join(UPLOAD_FOLDER, secure_filename(filename)), size)

\* the injective sequences over the finite set S
Perms(S) ==
  {s \in [1..Cardinality(S) -> S] : \A i, j \in 1..Cardinality(S) : s[i] = s[j] => i = j}

\* directory x lies strictly above directory y (relative paths, "" is the top)
Above(x, y) == x /= y /\ (x = <<>> \/ StartsWith(y, x \o <<SLASH>>))

\* the orders in which a top-down os.walk can meet the files rels: the files
\* of a directory come before the files of the directories below it, the
\* order of os.listdir inside a directory is arbitrary
WalkOrders(rels) ==
  {s \in Perms(rels) :
     \A i, j \in 1..Len(s) : i < j => ~Above(dirname(s[j]), dirname(s[i]))}

\* the regular files below the prefix pre, by the rest of their path
\* (os.path.relpath(full_path, base_dir))
Below(fs, pre) ==
  {SubSeq(f, Len(pre) + 1, Len(f)) : f \in {g \in DOMAIN fs.files : StartsWith(g, pre)}}

\* the walk, had it stopped at the files directly in base_dir
FilesUnder_flat(fs, base_dir) ==
  {r \in Below(fs, base_dir \o <<SLASH>>) : \A i \in 1..Len(r) : r[i] /= SLASH}

FilesUnder(fs, base_dir) == Below(fs, base_dir \o <<SLASH>>)

\* lines 250-283: the replies for base_dir, one per order of the walk
ListDir(fs, base_dir) ==
  IF ~exists(fs, base_dir) THEN {Reply(200, TRUE, fs, base_dir, <<>>)}
  ELSE IF ~isdir(fs, base_dir) THEN {Reply(400, FALSE, fs, base_dir, <<>>)}
  ELSE {Reply(200, TRUE, fs, base_dir,
              [i \in 1..Len(o) |->
                 [path |-> o[i], size |-> fs.files[join(base_dir, o[i])]]]) :
          o \in WalkOrders(FilesUnder(fs, base_dir))}

\* lines 285-290: a raise of the resolver is answered by the catch-all
ListAt(fs, r) ==
  IF ~r.ok THEN {Reply(500, FALSE, fs, NONE, <<>>)} ELSE ListDir(fs, r.full)

\* lines 244-248
ListFor(fs, rel_dir) ==
  ListAt(fs, IF rel_dir = <<>> \/ rel_dir = <<DOT>>
             THEN [ok |-> TRUE, full |-> _realpath(UPLOAD_FOLDER)]
             ELSE resolve_path_under_upload(rel_dir))

\* GET /dir_files: the replies it can give
list_directory_files(fs, dir) ==
  ListFor(fs, Strip(IF dir = NONE THEN <<>> ELSE dir, {" "}))

\* lines 309-330
DeletePath(fs, filepath) ==
  IF ~exists(fs, filepath) THEN Reply(404, FALSE, fs, filepath, <<>>)
  ELSE IF ~isfile(fs, filepath) THEN Reply(400, FALSE, fs, filepath, <<>>)
  ELSE Reply(200, TRUE, remove(fs, filepath), filepath, <<>>)

\* lines 332-337: a raise of the resolver is answered by the catch-all
DeleteAt(fs, r) ==
  IF ~r.ok THEN Reply(500, FALSE, fs, NONE, <<>>) ELSE DeletePath(fs, r.full)

\* DELETE /file, had it joined the parameter to the folder as DELETE
\* /files/<filename> does, without the resolver
delete_file_by_path_joined(fs, rel_path) ==
  IF rel_path = NONE \/ rel_path = <<>> THEN Reply(400, FALSE, fs, NONE, <<>>)
  ELSE DeletePath(fs, _realpath(join(UPLOAD_FOLDER, rel_path)))

\* DELETE /file
delete_file_by_path(fs, rel_path) ==
  IF rel_path = NONE \/ rel_path = <<>> THEN Reply(400, FALSE, fs, NONE, <<>>)
  ELSE DeleteAt(fs, resolve_path_under_upload(rel_path))

(***************************************************************************)
(* host/app.py: the routes.  A request for a URL reaches the handler whose *)
(* rule and method match exactly; Flask answers 405 for a known rule with  *)
(* another method and 404 for any other path.                              *)
(***************************************************************************)
\* scheme and authority of the receiver: "http://h"
ORIGIN == <<"h", "t", "t", "p", ":", "/", "/", "h">>

UPLOAD_RULE == <<"/", "u", "p", "l", "o", "a", "d">>
DIR_FILES_RULE == <<"/", "d", "i", "r", "_", "f", "i", "l", "e", "s">>
FILE_RULE == <<"/", "f", "i", "l", "e">>
\* line 371: the index page, GET only
ROOT_RULE == <<SLASH>>

\* the path of a URL of the receiver ("/" when the URL ends at the authority)
OrSlash(rest) == IF rest = <<>> THEN <<SLASH>> ELSE rest
UrlPath(url) == OrSlash(SubSeq(url, Len(ORIGIN) + 1, Len(url)))

\* the replies the receiver can give to one request.  req: method, url,
\* name (of the 'file' part), param (relative_path, dir or path), size
Route(fs, req, path) ==
  IF path = UPLOAD_RULE /\ req.method = "POST"
    THEN {upload_file(fs, req.name, req.param, req.size)}
  ELSE IF path = DIR_FILES_RULE /\ req.method = "GET"
    THEN list_directory_files(fs, req.param)
  ELSE IF path = FILE_RULE /\ req.method = "DELETE"
    THEN {delete_file_by_path(fs, req.param)}
  ELSE IF path \in {UPLOAD_RULE, DIR_FILES_RULE, FILE_RULE, ROOT_RULE}
    THEN {Reply(405, FALSE, fs, NONE, <<>>)}
  ELSE {Reply(404, FALSE, fs, NONE, <<>>)}

HostServe(fs, req) == Route(fs, req, UrlPath(req.url))

(***************************************************************************)
(* client/app.py: URLs, names, snapshots and the plan                      *)
(***************************************************************************)
\* lines 471-473: url without a trailing /upload
WithoutUpload(url) ==
  IF EndsWith(Lower(url), UPLOAD_RULE)
  THEN SubSeq(url, 1, Len(url) - Len(UPLOAD_RULE))
  ELSE url

_base_url(backup_url) ==
  IF backup_url = <<>> THEN <<>> ELSE WithoutUpload(RStrip(backup_url, {SLASH}))

\* name if name else "dir"
OrDir(name) == IF name /= <<>> THEN name ELSE <<"d", "i", "r">>

\* _remote_dir_name, had it kept the whole normalized path
_remote_dir_name_whole(local_dir) == OrDir(Strip(normpath(local_dir), {SLASH}))

_remote_dir_name(local_dir) == OrDir(basename(normpath(local_dir)))

\* a Dict[str, int] in insertion order: a sequence of path/size entries with
\* distinct paths
Keys(d) == {d[i].path : i \in 1..Len(d)}
Has(d, p) == p \in Keys(d)
Get(d, p) == d[CHOOSE i \in 1..Len(d) : d[i].path = p].size

\* d[p] = s
DictSet(d, p, s) ==
  IF Has(d, p)
  THEN [i \in 1..Len(d) |-> IF d[i].path = p THEN [path |-> p, size |-> s] ELSE d[i]]
  ELSE Append(d, [path |-> p, size |-> s])

RECURSIVE DictFrom(_, _)
\* lines 512-518: the dict built from the files of the reply
DictFrom(files, out) ==
  IF files = <<>> THEN out
  ELSE DictFrom(Tail(files), DictSet(out, Head(files).path, Head(files).size))

\* list_local_directory_files: the dict a walk of the local tree builds, for
\* the order `order` in which the walk meets the files
list_local_directory_files(tree, order) ==
  DictFrom([i \in 1..Len(order) |->
              [path |-> Replace(order[i], BSLASH, SLASH), size |-> tree[order[i]]]],
           <<>>)

\* the paths of the entries
PathsOf(entries) == [i \in 1..Len(entries) |-> entries[i].path]

\* line 553, had it taken only a smaller remote size for a change
to_upload_smaller(local_files, remote_files) ==
  PathsOf(SelectSeq(local_files,
                    LAMBDA e : ~Has(remote_files, e.path) \/ Get(remote_files, e.path) < e.size))

\* line 553
to_upload_of(local_files, remote_files) ==
  PathsOf(SelectSeq(local_files,
                    LAMBDA e : ~Has(remote_files, e.path) \/ Get(remote_files, e.path) /= e.size))

\* line 554
to_delete_of(local_files, remote_files) ==
  PathsOf(SelectSeq(remote_files, LAMBDA e : ~Has(local_files, e.path)))

\* the requests of the four transport operations
ListRequest(backup_url, remote_dir) ==
  [op |-> "list", method |-> "GET",
   url |-> RStrip(_base_url(backup_url), {SLASH}) \o DIR_FILES_RULE,
   name |-> NONE, param |-> remote_dir, size |-> 0]

UploadRequest(backup_url, rel_path, remote_dir, size) ==
  [op |-> "upload", method |-> "POST",
   url |-> RStrip(_base_url(backup_url), {SLASH}) \o UPLOAD_RULE,
   name |-> basename(rel_path),
   param |-> Replace(remote_dir \o <<SLASH>> \o rel_path, BSLASH, SLASH),
   size |-> size]

DeleteRequest(backup_url, remote_dir, rel_path) ==
  [op |-> "delete", method |-> "DELETE",
   url |-> RStrip(_base_url(backup_url), {SLASH}) \o FILE_RULE,
   name |-> NONE,
   param |-> Replace(remote_dir \o <<SLASH>> \o rel_path, BSLASH, SLASH),
   size |-> 0]

\* lines 406-414: the single-file upload posts to the configured URL as it is
LegacyRequest(backup_url, file_path, size) ==
  [op |-> "legacy", method |-> "POST", url |-> backup_url,
   name |-> basename(file_path), param |-> NONE, size |-> size]

(***************************************************************************)
(* State                                                                   *)
(***************************************************************************)
VARIABLES
  fs,          \* the receiver's filesystem
  resp,        \* the last HTTP exchange: the request and what came of it
  backup_url,  \* client: BACKUP_URL of the environment
  local,       \* client: what each tracked path is on the local disk
  file_data,   \* client: the tracking list, entries with path and last_backup
  data_file,   \* client: the content of file_list.json
  ui,          \* client: buttons, progress bar, progress, status, summary
  queue,       \* client: the callbacks posted with root.after(0, ...), in order
  worker,      \* client: the backup thread of each run
  now,         \* client: the clock, advanced by each start of a run
  outcome      \* history: per target of the latest run, how its sync ended

hostVars == <<fs, resp>>
clientVars == <<backup_url, local, file_data, data_file, ui, queue, worker, now, outcome>>
vars == <<fs, resp, backup_url, local, file_data, data_file, ui, queue, worker, now, outcome>>

\* no request served yet
NoRequest ==
  [seq |-> 0, kind |-> "none", url |-> NONE, path |-> NONE, name |-> NONE,
   size |-> 0, status |-> 0, success |-> FALSE, target |-> NONE,
   files |-> <<>>, fault |-> "none", client |-> "none"]

\* the record of one exchange; seq alternates so that two equal requests in
\* a row are two steps.  A request that met a transport fault has status 0.
Exchange(req, reply, fault) ==
  [seq |-> 1 - resp.seq, kind |-> req.op, url |-> req.url, path |-> req.param,
   name |-> req.name, size |-> req.size,
   status |-> IF fault = "none" THEN reply.status ELSE 0,
   success |-> fault = "none" /\ reply.success,
   target |-> reply.target, files |-> reply.files, fault |-> fault,
   client |-> "app"]

\* the record of a request served by a handler called directly
Served(kind, path, name, size, reply) ==
  Exchange([op |-> kind, url |-> NONE, param |-> path, name |-> name, size |-> size],
           reply, "none")

(***************************************************************************)
(* SpecResolve: resolve_path_under_upload applied to every string of at    *)
(* most MaxPathLen characters over PathChars.                              *)
(***************************************************************************)
MaxPathLen == 7
PathChars == {SLASH, BSLASH, DOT, "a"}
PathStrings == UNION {[1..n -> PathChars] : n \in 0..MaxPathLen}

\* no client takes part
ClientUnused ==
  /\ backup_url = <<>>
  /\ local = <<>>
  /\ file_data = <<>>
  /\ data_file = <<>>
  /\ ui = <<>>
  /\ queue = <<>>
  /\ worker = <<>>
  /\ now = 0
  /\ outcome = <<>>

\* the string to resolve is drawn at the start, the call is made once
InitResolve ==
  /\ fs = EmptyFs
  /\ ClientUnused
  /\ \E rel_path \in PathStrings :
       resp = [seq |-> 0, kind |-> "call", path |-> rel_path,
               result |-> ValueError("")]

Resolve ==
  /\ resp.kind = "call"
  /\ resp' = [resp EXCEPT !.kind = "resolve",
                          !.result = resolve_path_under_upload(resp.path)]
  /\ UNCHANGED <<fs, clientVars>>

NextResolve == Resolve

SpecResolve == InitResolve /\ [][NextResolve]_vars

(***************************************************************************)
(* SpecHost: the receiver alone, serving any sequence of POST /upload,     *)
(* GET /dir_files and DELETE /file with the parameters of HostPaths.       *)
(***************************************************************************)
MaxSize == 2
Sizes == 1..MaxSize

\* the path parameters tried: plain and nested names, both separators,
\* leading separators, "." and ".." segments, a name that begins with dots
HostPaths ==
  { <<"a">>, <<"a", "/", "b">>, <<"a", BSLASH, "b">>,
    <<"/", "a">>, <<".", "/", "a">>, <<"b", "/", ".", ".", "/", "a">>,
    <<".", ".", "/", "x">>, <<"a", "/", ".", ".", "/", ".", ".", "/", "x">>,
    <<BSLASH, ".", ".", BSLASH, "x">>, <<".", ".">>, <<".">>, <<"/">>,
    <<"a", "/", ".", ".">>, <<".", ".", "a">> }

\* the names of the 'file' part tried by the flat upload
HostNames == {NONE, <<>>, <<"f">>, <<".", ".">>, <<".", ".", "/", "f">>}

\* a file of another service beside the upload folder: /srv/x
OutsideFile == join(CWD, <<"x">>)

HostInitFs == WriteFile(EmptyFs, OutsideFile, 1)

InitHost ==
  /\ fs = HostInitFs
  /\ ClientUnused
  /\ resp = NoRequest

\* POST /upload carrying the form field relative_path
Upload ==
  \E relative_path \in HostPaths, size \in Sizes \cup {MAX_CONTENT_LENGTH + 1} :
    LET reply == upload_file(fs, <<"f">>, relative_path, size)
    IN /\ fs' = reply.fs
       /\ resp' = Served("upload", relative_path, <<"f">>, size, reply)
       /\ UNCHANGED clientVars

\* POST /upload without the field, or with an empty one: the flat save
UploadLegacy ==
  \E filename \in HostNames, relative_path \in {NONE, <<>>},
     size \in Sizes :
    LET reply == upload_file(fs, filename, relative_path, size)
    IN /\ fs' = reply.fs
       /\ resp' = Served("legacy", relative_path, filename, size, reply)
       /\ UNCHANGED clientVars

\* GET /dir_files
DirFiles ==
  \E dir \in HostPaths \cup {NONE, <<>>, <<" ">>} :
    \E reply \in list_directory_files(fs, dir) :
      /\ fs' = reply.fs
      /\ resp' = Served("list", dir, NONE, 0, reply)
      /\ UNCHANGED clientVars

\* DELETE /file
DeleteFile ==
  \E rel_path \in HostPaths \cup {NONE, <<>>} :
    LET reply == delete_file_by_path(fs, rel_path)
    IN /\ fs' = reply.fs
       /\ resp' = Served("delete", rel_path, NONE, 0, reply)
       /\ UNCHANGED clientVars

NextHost == Upload \/ UploadLegacy \/ DirFiles \/ DeleteFile

SpecHost == InitHost /\ [][NextHost]_vars

(***************************************************************************)
(* client/app.py: the backup run.  start_backup runs in the foreground     *)
(* (the Tk main loop) and starts a thread for perform_backup; the thread   *)
(* posts callbacks with root.after(0, ...), which the main loop runs one   *)
(* at a time in the order posted.  One step of the thread is one HTTP      *)
(* exchange together with the callbacks posted before it.                  *)
(***************************************************************************)
MaxRuns == 2

\* the tracked paths: a directory, a regular file, a path that is missing
DIR_D == <<"/", "h", "/", "d">>
\* another directory with the same final component
DIR_E == <<"/", "g", "/", "d">>
FILE_F == <<"/", "h", "/", "f">>
MISSING_M == <<"/", "h", "/", "m">>

NoTree == [q \in {} |-> 0]
LocalDir(tree) == [type |-> "dir", tree |-> tree, size |-> 0]
LocalFile(size) == [type |-> "file", tree |-> NoTree, size |-> size]
LocalMissing == [type |-> "missing", tree |-> NoTree, size |-> 0]

\* a thread that is not running
IdleWorker ==
  [pc |-> "idle", files |-> <<>>, index |-> 0, successful |-> 0, failed |-> <<>>,
   remote_dir |-> NONE, local_files |-> <<>>, remote_files |-> <<>>,
   to_upload |-> <<>>, to_delete |-> <<>>, k |-> 0, uploaded |-> 0, deleted |-> 0]

\* a transport fault: the request is lost ("before", the receiver never sees
\* it) or the reply is ("after", the receiver has served it); either way the
\* client gets a requests.exceptions.RequestException
OutcomesOf(replies) ==
  {[fault |-> "none", reply |-> r] : r \in replies}
  \cup {[fault |-> "before", reply |-> Reply(0, FALSE, fs, NONE, <<>>)]}
  \cup {[fault |-> "after", reply |-> r] : r \in {x \in replies : x.fs /= fs}}

Outcomes(req) == OutcomesOf(HostServe(fs, req))

\* lines 425-428, had the exception of a failed target ended the thread
Failed_dying(wk, kind, detail, op) == [IdleWorker EXCEPT !.pc = "ended"]

\* lines 425-428, had a failed target ended the loop over the targets
Failed_stopping(wk, kind, detail, op) ==
  [wk EXCEPT !.failed = Append(@, [name |-> basename(wk.files[wk.index + 1]),
                                   kind |-> kind, detail |-> detail, op |-> op]),
             !.index = Len(wk.files), !.pc = "loop",
             !.remote_dir = NONE, !.local_files = <<>>, !.remote_files = <<>>,
             !.to_upload = <<>>, !.to_delete = <<>>, !.k = 0,
             !.uploaded = 0, !.deleted = 0]

\* the entry of the failed list and the end of the target: lines 425-428; op
\* is the operation whose URL the text of the exception carries
Failed(wk, kind, detail, op) ==
  [wk EXCEPT !.failed = Append(@, [name |-> basename(wk.files[wk.index + 1]),
                                   kind |-> kind, detail |-> detail, op |-> op]),
             !.index = @ + 1, !.pc = "loop",
             !.remote_dir = NONE, !.local_files = <<>>, !.remote_files = <<>>,
             !.to_upload = <<>>, !.to_delete = <<>>, !.k = 0,
             !.uploaded = 0, !.deleted = 0]

\* how the sync of a target of the run ended
Ended(path, result) == Append(outcome, [path |-> path, result |-> result])

Notify(op, arg) == [op |-> op, arg |-> arg]
Status(tag, name) == Notify("status", [tag |-> tag, name |-> name])

\* start_backup, lines 348-377
start_backup ==
  LET files_to_backup ==
        SelectSeq([i \in 1..Len(file_data) |-> file_data[i].path],
                  LAMBDA path : local[path].type /= "missing")
  IN /\ now < MaxRuns
     /\ ui.buttons = "normal"
     /\ backup_url /= <<>>
     /\ file_data /= <<>>
     /\ files_to_backup /= <<>>
     /\ ui' = [ui EXCEPT !.buttons = "disabled", !.pbar = "normal",
                         !.progress = [num |-> 0, den |-> 1],
                         !.status = [tag |-> "Starting backup", name |-> NONE]]
     /\ now' = now + 1
     /\ worker' = [worker EXCEPT ![now + 1] =
                     [IdleWorker EXCEPT !.pc = "loop", !.files = files_to_backup]]
     /\ outcome' = <<>>
     /\ UNCHANGED <<fs, resp, backup_url, local, file_data, data_file, queue>>

\* lines 390-393, had the two callbacks gone to the front of the queue
Begun_front(wk) ==
  << Notify("progress", [num |-> wk.index * 100, den |-> Len(wk.files)]),
     Status("Backing up", basename(wk.files[wk.index + 1])) >> \o queue

\* lines 390-393: the two callbacks posted when a target begins
Begun(wk) ==
  queue \o << Notify("progress", [num |-> wk.index * 100, den |-> Len(wk.files)]),
              Status("Backing up", basename(wk.files[wk.index + 1])) >>

\* perform_backup at a directory: sync_directory up to the plan, lines 548-557
SyncList(w) ==
  LET wk == worker[w]
      file_path == wk.files[wk.index + 1]
      remote_dir == _remote_dir_name(file_path)
      req == ListRequest(backup_url, remote_dir)
  IN /\ wk.pc = "loop"
     /\ wk.index < Len(wk.files)
     /\ local[file_path].type = "dir"
     /\ queue' = Begun(wk)
     /\ \E order \in WalkOrders(DOMAIN local[file_path].tree), o \in Outcomes(req) :
          LET local_files == list_local_directory_files(local[file_path].tree, order)
              remote_files == DictFrom(o.reply.files, <<>>)
              raised == o.fault /= "none" \/ o.reply.status /= 200 \/ ~o.reply.success
          IN /\ fs' = o.reply.fs
             /\ resp' = Exchange(req, o.reply, o.fault)
             /\ worker' = [worker EXCEPT ![w] =
                  IF o.fault /= "none" THEN Failed(wk, "Network error", 0, req.op)
                  ELSE IF raised THEN Failed(wk, "Error", o.reply.status, req.op)
                  ELSE [wk EXCEPT !.pc = "apply", !.remote_dir = remote_dir,
                                  !.local_files = local_files,
                                  !.remote_files = remote_files,
                                  !.to_upload = to_upload_of(local_files, remote_files),
                                  !.to_delete = to_delete_of(local_files, remote_files),
                                  !.k = 1]]
             /\ outcome' = IF raised THEN Ended(file_path, "failed") ELSE outcome
     /\ UNCHANGED <<backup_url, local, file_data, data_file, ui, now>>

\* lines 560-563, had the loop gone on to the next item after an upload that
\* raised
SyncUpload_continuing(w) ==
  LET wk == worker[w]
      file_path == wk.files[wk.index + 1]
      rel == wk.to_upload[wk.k]
      req == UploadRequest(backup_url, rel, wk.remote_dir, Get(wk.local_files, rel))
  IN /\ wk.pc = "apply"
     /\ wk.k <= Len(wk.to_upload)
     /\ queue' = Append(queue, Status("Uploading", wk.remote_dir \o <<SLASH>> \o rel))
     /\ \E o \in Outcomes(req) :
          LET raised == o.fault /= "none" \/ o.reply.status /= 200 \/ ~o.reply.success
          IN /\ fs' = o.reply.fs
             /\ resp' = Exchange(req, o.reply, o.fault)
             /\ worker' = [worker EXCEPT ![w] =
                  IF raised THEN [wk EXCEPT !.k = @ + 1]
                  ELSE [wk EXCEPT !.k = @ + 1, !.uploaded = @ + 1]]
             /\ outcome' = outcome
     /\ UNCHANGED <<backup_url, local, file_data, data_file, ui, now>>

\* sync_directory, lines 560-563: one upload of the plan
SyncUpload(w) ==
  LET wk == worker[w]
      file_path == wk.files[wk.index + 1]
      rel == wk.to_upload[wk.k]
      req == UploadRequest(backup_url, rel, wk.remote_dir, Get(wk.local_files, rel))
  IN /\ wk.pc = "apply"
     /\ wk.k <= Len(wk.to_upload)
     /\ queue' = Append(queue, Status("Uploading", wk.remote_dir \o <<SLASH>> \o rel))
     /\ \E o \in Outcomes(req) :
          LET raised == o.fault /= "none" \/ o.reply.status /= 200 \/ ~o.reply.success
          IN /\ fs' = o.reply.fs
             /\ resp' = Exchange(req, o.reply, o.fault)
             /\ worker' = [worker EXCEPT ![w] =
                  IF o.fault /= "none" THEN Failed(wk, "Network error", 0, req.op)
                  ELSE IF raised THEN Failed(wk, "Error", o.reply.status, req.op)
                  ELSE [wk EXCEPT !.k = @ + 1, !.uploaded = @ + 1]]
             /\ outcome' = IF raised THEN Ended(file_path, "failed") ELSE outcome
     /\ UNCHANGED <<backup_url, local, file_data, data_file, ui, now>>

\* line 538, had it taken only 200 for a success
delete_raises_unless_200(status) == status /= 200

\* the test of line 538
delete_raises(status) == status \notin {200, 404}

\* sync_directory, lines 566-569: one delete of the plan
SyncDelete(w) ==
  LET wk == worker[w]
      file_path == wk.files[wk.index + 1]
      rel == wk.to_delete[wk.k - Len(wk.to_upload)]
      req == DeleteRequest(backup_url, wk.remote_dir, rel)
  IN /\ wk.pc = "apply"
     /\ wk.k > Len(wk.to_upload)
     /\ wk.k <= Len(wk.to_upload) + Len(wk.to_delete)
     /\ queue' = Append(queue, Status("Deleting", wk.remote_dir \o <<SLASH>> \o rel))
     /\ \E o \in Outcomes(req) :
          LET raised == o.fault /= "none" \/ delete_raises(o.reply.status)
          IN /\ fs' = o.reply.fs
             /\ resp' = Exchange(req, o.reply, o.fault)
             /\ worker' = [worker EXCEPT ![w] =
                  IF o.fault /= "none" THEN Failed(wk, "Network error", 0, req.op)
                  ELSE IF raised THEN Failed(wk, "Error", o.reply.status, req.op)
                  ELSE [wk EXCEPT !.k = @ + 1, !.deleted = @ + 1]]
             /\ outcome' = IF raised THEN Ended(file_path, "failed") ELSE outcome
     /\ UNCHANGED <<backup_url, local, file_data, data_file, ui, now>>

\* sync_directory returns: lines 571 and 396-403
SyncReturn(w) ==
  LET wk == worker[w]
      file_path == wk.files[wk.index + 1]
  IN /\ wk.pc = "apply"
     /\ wk.k > Len(wk.to_upload) + Len(wk.to_delete)
     /\ queue' = queue \o
          << Notify("status", [tag |-> "Synced dir", name |-> basename(file_path),
                               uploaded |-> wk.uploaded, deleted |-> wk.deleted]),
             Notify("backup_time", file_path) >>
     /\ worker' = [worker EXCEPT ![w] =
          [wk EXCEPT !.successful = @ + 1, !.index = @ + 1, !.pc = "loop",
                     !.remote_dir = NONE, !.local_files = <<>>, !.remote_files = <<>>,
                     !.to_upload = <<>>, !.to_delete = <<>>, !.k = 0,
                     !.uploaded = 0, !.deleted = 0]]
     /\ outcome' = Ended(file_path, "ok")
     /\ UNCHANGED <<fs, resp, backup_url, local, file_data, data_file, ui, now>>

\* perform_backup at a regular file: lines 404-428
LegacyUpload(w) ==
  LET wk == worker[w]
      file_path == wk.files[wk.index + 1]
      file_name == basename(file_path)
      req == LegacyRequest(backup_url, file_path, local[file_path].size)
      done == [wk EXCEPT !.index = @ + 1]
  IN /\ wk.pc = "loop"
     /\ wk.index < Len(wk.files)
     /\ local[file_path].type = "file"
     /\ \E o \in Outcomes(req) :
          /\ fs' = o.reply.fs
          /\ resp' = Exchange(req, o.reply, o.fault)
          /\ IF o.fault /= "none"
             THEN /\ worker' = [worker EXCEPT ![w] = Failed(wk, "Network error", 0, req.op)]
                  /\ queue' = Begun(wk)
                  /\ outcome' = Ended(file_path, "failed")
             ELSE IF o.reply.status = 200
             THEN /\ worker' = [worker EXCEPT ![w] = [done EXCEPT !.successful = @ + 1]]
                  /\ queue' = Begun(wk) \o << Notify("backup_time", file_path),
                                               Status("Success", file_name) >>
                  /\ outcome' = Ended(file_path, "ok")
             ELSE /\ worker' = [worker EXCEPT ![w] =
                                  Failed(wk, "Server error", o.reply.status,
                                         req.op)]
                  /\ queue' = Begun(wk) \o << Status("Failed", file_name) >>
                  /\ outcome' = Ended(file_path, "failed")
     /\ UNCHANGED <<backup_url, local, file_data, data_file, ui, now>>

\* perform_backup after the loop, lines 431-437
Finish(w) ==
  LET wk == worker[w]
  IN /\ wk.pc = "loop"
     /\ wk.index = Len(wk.files)
     /\ queue' = queue \o
          << Notify("progress", [num |-> 100, den |-> 1]),
             Notify("summary", [successful |-> wk.successful, total |-> Len(wk.files),
                                failed |-> wk.failed]),
             Notify("buttons", "normal") >>
     /\ worker' = [worker EXCEPT ![w] = [IdleWorker EXCEPT !.pc = "last"]]
     /\ UNCHANGED <<fs, resp, backup_url, local, file_data, data_file, ui, now, outcome>>

\* perform_backup's last statement, line 438; the thread ends
FinishLast(w) ==
  /\ worker[w].pc = "last"
  /\ queue' = Append(queue, Notify("pbar", "disabled"))
  /\ worker' = [worker EXCEPT ![w] = [IdleWorker EXCEPT !.pc = "ended"]]
  /\ UNCHANGED <<fs, resp, backup_url, local, file_data, data_file, ui, now, outcome>>

\* the least of a set of indices
First(hits) == CHOOSE i \in hits : \A j \in hits : i <= j

Stamped(data, hits) ==
  IF hits = {} THEN data ELSE [data EXCEPT ![First(hits)].last_backup = now]

\* update_file_backup_time, had it stamped every entry of the list
update_file_backup_time_every(data, file_path) ==
  [i \in 1..Len(data) |-> [data[i] EXCEPT !.last_backup = now]]

\* update_file_backup_time applied to the tracking list, lines 341-344
update_file_backup_time(data, file_path) ==
  Stamped(data, {i \in 1..Len(data) : data[i].path = file_path})

\* a time in a JSON document: null for None, the isoformat string otherwise
JsonOfTime(t) == IF t = 0 THEN [type |-> "null", value |-> 0] ELSE [type |-> "string", value |-> t]
TimeOfJson(j) == IF j.type = "null" THEN 0 ELSE j.value

\* save_file_paths, lines 331-337: file_list.json after json.dump
save_file_paths(data) ==
  [exists |-> TRUE, list |-> TRUE,
   items |-> [i \in 1..Len(data) |->
                [type |-> "object", path |-> data[i].path,
                 last_backup |-> JsonOfTime(data[i].last_backup),
                 added_date |-> JsonOfTime(data[i].added_date)]]]

\* load_file_paths, had it taken every loaded entry for one never backed up
load_file_paths_unstamped(data, doc) ==
  IF ~doc.exists \/ ~doc.list THEN data
  ELSE IF doc.items /= <<>> /\ doc.items[1].type = "object"
    THEN [i \in 1..Len(doc.items) |->
            [path |-> doc.items[i].path, last_backup |-> 0,
             added_date |-> TimeOfJson(doc.items[i].added_date)]]
    ELSE [i \in 1..Len(doc.items) |->
            [path |-> doc.items[i].value, last_backup |-> 0, added_date |-> now]]

\* load_file_paths, lines 303-329: the tracking list after the load of the
\* document doc, data being the list before
load_file_paths(data, doc) ==
  IF ~doc.exists \/ ~doc.list THEN data
  ELSE IF doc.items /= <<>> /\ doc.items[1].type = "object"
    THEN [i \in 1..Len(doc.items) |->
            [path |-> doc.items[i].path,
             last_backup |-> TimeOfJson(doc.items[i].last_backup),
             added_date |-> TimeOfJson(doc.items[i].added_date)]]
    ELSE [i \in 1..Len(doc.items) |->
            [path |-> doc.items[i].value, last_backup |-> 0, added_date |-> now]]

\* the main loop runs the callback at the head of the queue
Callback ==
  /\ queue /= <<>>
  /\ queue' = Tail(queue)
  /\ LET n == Head(queue)
     IN CASE n.op = "progress" ->
               /\ ui' = [ui EXCEPT !.progress = n.arg]
               /\ UNCHANGED <<file_data, data_file>>
          [] n.op = "status" ->
               /\ ui' = [ui EXCEPT !.status = n.arg]
               /\ UNCHANGED <<file_data, data_file>>
          [] n.op = "backup_time" ->
               /\ file_data' = update_file_backup_time(file_data, n.arg)
               /\ data_file' = save_file_paths(file_data')
               /\ UNCHANGED ui
          [] n.op = "summary" ->
               /\ ui' = [ui EXCEPT !.summary = n.arg,
                                   !.status = IF n.arg.failed = <<>>
                                              THEN [tag |-> "Backup complete", name |-> NONE]
                                              ELSE @]
               /\ UNCHANGED <<file_data, data_file>>
          [] n.op = "buttons" ->
               /\ ui' = [ui EXCEPT !.buttons = n.arg]
               /\ UNCHANGED <<file_data, data_file>>
          [] n.op = "pbar" ->
               /\ ui' = [ui EXCEPT !.pbar = n.arg]
               /\ UNCHANGED <<file_data, data_file>>
  /\ UNCHANGED <<fs, resp, backup_url, local, worker, now, outcome>>

Next ==
  \/ start_backup
  \/ Callback
  \/ \E w \in 1..MaxRuns :
       \/ SyncList(w)
       \/ SyncUpload(w)
       \/ SyncDelete(w)
       \/ SyncReturn(w)
       \/ LegacyUpload(w)
       \/ Finish(w)
       \/ FinishLast(w)

(***************************************************************************)
(* Spec: one client and the receiver.  The runs start from two families of *)
(* situations: a tracked directory alone, for every local tree and every   *)
(* content of its remote directory drawn below; and the tracking lists of  *)
(* TargetLists under every form of BACKUP_URL.                             *)
(***************************************************************************)
FILE_A == <<"a">>
FILE_S == <<"s">>
FILE_S_B == <<"s", "/", "b">>

\* a tree with the file a of a bytes (none when a = 0), and s as a regular
\* file, as a directory holding b, or absent
TreeOf(a, s) ==
  (IF a = 0 THEN NoTree ELSE FILE_A :> a)
  @@ (CASE s = "file" -> FILE_S :> 1
        [] s = "dir" -> FILE_S_B :> 1
        [] OTHER -> NoTree)

LocalTrees == {TreeOf(a, s) : a \in {0, 1}, s \in {"none", "file", "dir"}}

\* what earlier uploads and deletes have left under the remote directory d
Stored(f, rel, size) == upload_file(f, basename(rel), <<"d", "/">> \o rel, size).fs
Dropped(f, rel) == delete_file_by_path(f, <<"d", "/">> \o rel).fs

WithS(f, s) ==
  CASE s = "file" -> Stored(f, FILE_S, 1)
    [] s = "dir" -> Stored(f, FILE_S_B, 1)
    [] s = "emptied" -> Dropped(Stored(f, FILE_S_B, 1), FILE_S_B)
    [] OTHER -> f

RemoteOf(a, s) == WithS(IF a = 0 THEN EmptyFs ELSE Stored(EmptyFs, FILE_A, a), s)

RemoteInits == {RemoteOf(a, s) : a \in 0..MaxSize, s \in {"none", "file", "dir", "emptied"}}

\* BACKUP_URL: the bare root or the root with /upload, with or without a
\* trailing slash
BackupUrls ==
  {ORIGIN, ORIGIN \o <<SLASH>>, ORIGIN \o UPLOAD_RULE, ORIGIN \o UPLOAD_RULE \o <<SLASH>>}

TargetLists ==
  {<<FILE_F>>, <<DIR_D, FILE_F>>, <<FILE_F, DIR_D>>, <<MISSING_M, DIR_D>>,
   <<FILE_F, MISSING_M>>}

\* the tracking list as load_file_paths leaves it for paths never backed up:
\* last_backup is the time of the stamp on the clock now, 0 standing for None
Tracking(paths) ==
  [i \in 1..Len(paths) |-> [path |-> paths[i], last_backup |-> 0, added_date |-> 0]]

\* the application after __init__, with the tree of DIR_D and the list given
Constructed(tree, paths) ==
  /\ local = (DIR_D :> LocalDir(tree)) @@ (FILE_F :> LocalFile(1))
             @@ (MISSING_M :> LocalMissing)
             @@ (DIR_E :> LocalDir(TreeOf(MaxSize, "none")))
  /\ file_data = Tracking(paths)
  /\ data_file = save_file_paths(Tracking(paths))
  /\ ui = [buttons |-> "normal", pbar |-> "disabled", progress |-> [num |-> 0, den |-> 1],
           status |-> [tag |-> "Ready", name |-> NONE],
           summary |-> [successful |-> 0, total |-> 0, failed |-> <<>>]]
  /\ queue = <<>>
  /\ worker = [w \in 1..MaxRuns |-> IdleWorker]
  /\ now = 0
  /\ outcome = <<>>
  /\ resp = NoRequest

InitSync ==
  /\ backup_url = ORIGIN \o UPLOAD_RULE
  /\ \E tree \in LocalTrees : Constructed(tree, <<DIR_D>>)
  /\ fs \in RemoteInits

InitBackup ==
  /\ backup_url \in BackupUrls
  /\ \E paths \in TargetLists : Constructed(TreeOf(1, "none"), paths)
  /\ fs = EmptyFs

\* two tracked directories with the same final component
InitCollide ==
  /\ backup_url = ORIGIN \o UPLOAD_RULE
  /\ Constructed(TreeOf(1, "file"), <<DIR_D, DIR_E>>)
  /\ fs = EmptyFs

Init == InitSync \/ InitBackup \/ InitCollide

Spec == Init /\ [][Next]_vars

(***************************************************************************)
(* SpecLive: Spec with the scheduling of the threads: a worker that can    *)
(* take a step takes one (each HTTP call returns or times out), and the    *)
(* main loop runs the callbacks posted to it.                              *)
(***************************************************************************)
WorkerStep(w) ==
  \/ SyncList(w) \/ SyncUpload(w) \/ SyncDelete(w) \/ SyncReturn(w)
  \/ LegacyUpload(w) \/ Finish(w) \/ FinishLast(w)

\* the thread of run w is alive: it has a step to take
Running(w) == worker[w].pc \in {"loop", "apply", "last"}

\* WF_vars(WorkerStep(w)), with ENABLED <<WorkerStep(w)>>_vars written as
\* Running(w): a live thread always has a step, since a request that gets
\* no answer times out
WorkerFair(w) == ([]<>(~Running(w))) \/ ([]<><<WorkerStep(w)>>_vars)

SpecLive ==
  /\ Init /\ [][Next]_vars
  /\ WF_vars(Callback)
  /\ \A w \in 1..MaxRuns : WorkerFair(w)

(***************************************************************************)
(* SpecTwo: two clients of one receiver, each in a run of one directory:   *)
(* the first syncs DIR_D and the second DIR_E, which has the same final    *)
(* component.  worker[1] and worker[2] are the worker threads of the two   *)
(* applications; queue and outcome collect what both post and how their    *)
(* syncs ended.  The steps are those of sync_directory.                    *)
(***************************************************************************)
\* the worker thread of a client whose start_backup found the one target
Started(target) == [IdleWorker EXCEPT !.pc = "loop", !.files = <<target>>]

InitTwo ==
  /\ backup_url = ORIGIN \o UPLOAD_RULE
  /\ fs \in RemoteInits
  /\ \E tree \in LocalTrees :
       local = (DIR_D :> LocalDir(tree)) @@ (DIR_E :> LocalDir(TreeOf(MaxSize, "none")))
  /\ file_data = Tracking(<<DIR_D, DIR_E>>)
  /\ data_file = save_file_paths(Tracking(<<DIR_D, DIR_E>>))
  /\ ui = [buttons |-> "disabled", pbar |-> "normal", progress |-> [num |-> 0, den |-> 1],
           status |-> [tag |-> "Starting backup", name |-> NONE],
           summary |-> [successful |-> 0, total |-> 0, failed |-> <<>>]]
  /\ queue = <<>>
  /\ worker = [w \in 1..MaxRuns |->
                 CASE w = 1 -> Started(DIR_D)
                   [] w = 2 -> Started(DIR_E)
                   [] OTHER -> IdleWorker]
  /\ now = 1
  /\ outcome = <<>>
  /\ resp = NoRequest

NextTwo ==
  \E w \in 1..MaxRuns :
    \/ SyncList(w)
    \/ SyncUpload(w)
    \/ SyncDelete(w)
    \/ SyncReturn(w)

SpecTwo == InitTwo /\ [][NextTwo]_vars

(***************************************************************************)
(* SpecFrame: one client in a run of one directory, DIR_D or DIR_W, against *)
(* a receiver that also holds a file saved flat by the single-file upload  *)
(* and a file of the remote directory e.  The steps are those of           *)
(* sync_directory.                                                         *)
(***************************************************************************)
\* a directory whose final component holds a backslash, an ordinary
\* character of a POSIX file name
DIR_W == <<"/", "h", "/", "d", BSLASH, "s">>

\* the receiver after a single-file upload of f and a sync of a directory e
WithOthers(f) ==
  upload_file(upload_file(f, <<"f">>, NONE, 1).fs, <<"a">>, <<"e", "/", "a">>, 1).fs

InitFrame ==
  /\ backup_url = ORIGIN \o UPLOAD_RULE
  /\ \E f \in RemoteInits : fs = WithOthers(f)
  /\ \E tree \in LocalTrees :
       local = (DIR_D :> LocalDir(tree)) @@ (DIR_W :> LocalDir(tree))
  /\ \E target \in {DIR_D, DIR_W} :
       /\ file_data = Tracking(<<target>>)
       /\ data_file = save_file_paths(Tracking(<<target>>))
       /\ worker = [w \in 1..MaxRuns |-> IF w = 1 THEN Started(target) ELSE IdleWorker]
  /\ ui = [buttons |-> "disabled", pbar |-> "normal", progress |-> [num |-> 0, den |-> 1],
           status |-> [tag |-> "Starting backup", name |-> NONE],
           summary |-> [successful |-> 0, total |-> 0, failed |-> <<>>]]
  /\ queue = <<>>
  /\ now = 1
  /\ outcome = <<>>
  /\ resp = NoRequest

SpecFrame == InitFrame /\ [][NextTwo]_vars

(***************************************************************************)
(* SpecOther: Spec with a second client of the receiver, which deletes     *)
(* through DELETE /file a file the running sync has planned to delete.     *)
(***************************************************************************)
OtherDelete ==
  /\ \E w \in 1..MaxRuns :
       /\ worker[w].pc = "apply"
       /\ \E k \in 1..Len(worker[w].to_delete) :
            \E reply \in HostServe(fs, DeleteRequest(ORIGIN, worker[w].remote_dir,
                                                     worker[w].to_delete[k])) :
              /\ fs' = reply.fs
              /\ resp' = [Exchange(DeleteRequest(ORIGIN, worker[w].remote_dir,
                                                 worker[w].to_delete[k]),
                                   reply, "none") EXCEPT !.client = "other"]
  /\ UNCHANGED clientVars

NextOther == Next \/ OtherDelete

SpecOther == Init /\ [][NextOther]_vars

(***************************************************************************)
(* SpecLoad: load_file_paths at the start of the application for every     *)
(* document of Documents, then save_file_paths and a second load.          *)
(***************************************************************************)
MaxDocLen == 2

RECURSIVE SeqsUpTo(_, _)
\* the sequences over S of at most n elements
SeqsUpTo(S, n) ==
  IF n = 0 THEN {<<>>}
  ELSE SeqsUpTo(S, n - 1) \cup
       {Append(q, x) : q \in {r \in SeqsUpTo(S, n - 1) : Len(r) = n - 1}, x \in S}

\* file_list.json: absent, a document that is no array, an array of bare
\* path strings, or an array of records
Documents ==
  {[exists |-> FALSE, list |-> FALSE, items |-> <<>>],
   [exists |-> TRUE, list |-> FALSE, items |-> <<>>]}
  \cup {[exists |-> TRUE, list |-> TRUE, items |-> q] :
          q \in SeqsUpTo({[type |-> "string", value |-> x] :
                            x \in {DIR_D, FILE_F, MISSING_M}}, MaxDocLen)}
  \cup {save_file_paths(q) :
          q \in SeqsUpTo({[path |-> x, last_backup |-> t, added_date |-> 1] :
                            x \in {DIR_D, FILE_F}, t \in {0, 1}}, MaxDocLen)}

InitLoad ==
  /\ fs = EmptyFs
  /\ backup_url = <<>>
  /\ local = <<>>
  /\ ui = <<>>
  /\ queue = <<>>
  /\ worker = <<>>
  /\ outcome = <<>>
  /\ now = 2
  /\ file_data = <<>>
  /\ data_file \in Documents
  /\ resp = [seq |-> 0, kind |-> "boot", saved |-> <<>>]

\* __init__, line 36
Load ==
  /\ resp.kind = "boot"
  /\ file_data' = load_file_paths(file_data, data_file)
  /\ resp' = [resp EXCEPT !.kind = "loaded"]
  /\ UNCHANGED <<fs, backup_url, local, data_file, ui, queue, worker, now, outcome>>

Save ==
  /\ resp.kind = "loaded"
  /\ data_file' = save_file_paths(file_data)
  /\ resp' = [resp EXCEPT !.kind = "saved", !.saved = file_data]
  /\ UNCHANGED <<fs, backup_url, local, file_data, ui, queue, worker, now, outcome>>

\* the next start of the application
Reload ==
  /\ resp.kind = "saved"
  /\ \E before \in {<<>>, file_data} :
       file_data' = load_file_paths(before, data_file)
  /\ resp' = [resp EXCEPT !.kind = "reloaded"]
  /\ UNCHANGED <<fs, backup_url, local, data_file, ui, queue, worker, now, outcome>>

NextLoad == Load \/ Save \/ Reload

SpecLoad == InitLoad /\ [][NextLoad]_vars

(***************************************************************************)
(* Properties of the resolver and of the receiver                          *)
(***************************************************************************)
\* the configured root, and the paths strictly inside it
Root == _realpath(UPLOAD_FOLDER)
Inside(p) == StartsWith(p, Root \o <<SLASH>>)

\* a segment that is an ordinary name: it begins with a letter
PlainSegment(seg) == seg /= <<>> /\ seg[1] \notin {DOT, BSLASH, SLASH, " "}

\* a plain nested relative path such as a/b/c.txt
PlainNested(p) ==
  /\ p /= <<>>
  /\ \A i \in 1..Len(p) : p[i] /= BSLASH
  /\ \A i \in 1..Len(Split(p, SLASH)) : PlainSegment(Split(p, SLASH)[i])

\* the normalized form of p begins with a parent-directory segment
BeginsWithParent(p) == Split(normpath(Replace(p, BSLASH, SLASH)), SLASH)[1] = PARENT

\* C4: the resolver fails for every absolute input and for every input whose
\* normalized form begins with a parent-directory segment, and for a plain
\* nested relative path it succeeds with a result that starts with the root.
C4_AbsoluteAndParentRejected ==
  resp.kind = "resolve" =>
    /\ isabs(resp.path) => ~resp.result.ok
    /\ BeginsWithParent(resp.path) => ~resp.result.ok
    /\ PlainNested(resp.path) =>
         resp.result.ok /\ StartsWith(resp.result.full, Root \o <<SLASH>>)

\* the parameter a served request hands to the resolver
ResolverParam(r) == IF r.kind = "list" THEN Strip(r.path, {" "}) ELSE r.path

\* the served request went through the resolver
UsesResolver(r) ==
  /\ r.kind \in {"upload", "list", "delete"}
  /\ r.path /= NONE
  /\ ResolverParam(r) /= <<>>
  /\ r.kind = "list" => ResolverParam(r) /= <<DOT>>
  /\ r.kind = "upload" => r.status /= 413

\* the part of a filesystem that lies outside the root
OutsideFiles(f) == {<<p, f.files[p]>> : p \in {q \in DOMAIN f.files : ~Inside(q)}}
OutsideDirs(f) == {d \in f.dirs : ~Inside(d) /\ d /= Root}

\* C1: whatever path strings the upload-with-relative-path, listing and
\* delete-by-path requests carry, nothing outside the root is created,
\* overwritten or deleted, and every path such a handler works on is the
\* resolver's result for the request's parameter, strictly inside the root,
\* or the root itself when a listing names no directory.
C1_Containment ==
  /\ OutsideFiles(fs) = OutsideFiles(HostInitFs)
  /\ OutsideDirs(fs) = OutsideDirs(HostInitFs)
  /\ (resp.kind \in {"upload", "list", "delete"} /\ resp.target /= NONE) =>
       IF UsesResolver(resp)
       THEN /\ resolve_path_under_upload(ResolverParam(resp)).ok
            /\ resp.target = resolve_path_under_upload(ResolverParam(resp)).full
            /\ Inside(resp.target)
       ELSE resp.kind = "list" /\ resp.target = Root

\* C1 witness: a delete aimed at the file beside the root has been served
\* while the tree under the root holds a nested upload
C1_Witness ==
  /\ resp.kind = "delete"
  /\ resp.path = <<".", ".", "/", "x">>
  /\ isfile(fs, join(Root, <<"a", "/", "b">>))
  /\ isfile(fs, OutsideFile)

\* C9: a path the resolver rejects is answered with a 4xx status by each of
\* the three entry points that use the resolver, never with a 5xx.
C9_RejectionIs4xx ==
  (UsesResolver(resp) /\ ~resolve_path_under_upload(ResolverParam(resp)).ok) =>
    resp.status \in 400..499

(***************************************************************************)
(* Properties of the directory sync and of the backup run                  *)
(***************************************************************************)
Range(s) == {s[i] : i \in 1..Len(s)}

\* the snapshot of a remote directory: the sizes of the regular files below
\* it by relative path
RemoteSnapshot(f, remote_dir) ==
  [rel \in FilesUnder(f, join(Root, remote_dir)) |->
     f.files[join(join(Root, remote_dir), rel)]]

\* the sync of DIR_D in the run of worker w has just ended, and no request
\* of the run met a transport fault
SyncEnded(w) ==
  /\ worker[w].pc = "loop"
  /\ worker[w].index >= 1
  /\ worker[w].files[worker[w].index] = DIR_D
  /\ \A i \in 1..Len(worker[w].failed) : worker[w].failed[i].kind /= "Network error"

\* a second plan from the local tree and the remote directory as it is now
\* uploads nothing and deletes nothing
SecondPlanEmpty ==
  \A order \in WalkOrders(DOMAIN local[DIR_D].tree),
     reply \in list_directory_files(fs, _remote_dir_name(DIR_D)) :
       /\ to_upload_of(list_local_directory_files(local[DIR_D].tree, order),
                       DictFrom(reply.files, <<>>)) = <<>>
       /\ to_delete_of(list_local_directory_files(local[DIR_D].tree, order),
                       DictFrom(reply.files, <<>>)) = <<>>

\* C2: when a sync of the directory has run with every request delivered
\* and answered, the remote directory listed again is the local snapshot
\* (same relative paths, same sizes) and a second plan is empty.
C2_SyncConverges ==
  \A w \in 1..MaxRuns :
    SyncEnded(w) =>
      /\ RemoteSnapshot(fs, _remote_dir_name(DIR_D)) = local[DIR_D].tree
      /\ SecondPlanEmpty

\* C3: the plan of a sync is upload = {p in local : p not in remote or the
\* sizes differ} and delete = {p in remote : p not in local}; the two are
\* disjoint, and a path on both sides with equal sizes is in neither.
C3_PlanIsDiff ==
  \A w \in 1..MaxRuns :
    worker[w].pc = "apply" =>
      /\ Range(worker[w].to_upload) =
           {q \in Keys(worker[w].local_files) :
              \/ q \notin Keys(worker[w].remote_files)
              \/ Get(worker[w].remote_files, q) /= Get(worker[w].local_files, q)}
      /\ Range(worker[w].to_delete) =
           {q \in Keys(worker[w].remote_files) : q \notin Keys(worker[w].local_files)}
      /\ Range(worker[w].to_upload) \cap Range(worker[w].to_delete) = {}
      /\ \A q \in Keys(worker[w].local_files) \cap Keys(worker[w].remote_files) :
           Get(worker[w].remote_files, q) = Get(worker[w].local_files, q) =>
             q \notin Range(worker[w].to_upload) \cup Range(worker[w].to_delete)

\* C3 witness: a plan with an upload and a delete, made while a path of
\* equal sizes is on both sides
C3_Witness ==
  \E w \in 1..MaxRuns :
    /\ worker[w].pc = "apply"
    /\ worker[w].to_upload /= <<>>
    /\ worker[w].to_delete /= <<>>
    /\ \E q \in Keys(worker[w].local_files) \cap Keys(worker[w].remote_files) :
         Get(worker[w].remote_files, q) = Get(worker[w].local_files, q)

\* the run has recorded this end for the sync of the target
HasEnded(path, result) ==
  \E j \in 1..Len(outcome) : outcome[j] = [path |-> path, result |-> result]

\* C5: the last_backup of a tracked target changes only if the sync of that
\* target succeeded in this run; a target whose sync raised or whose upload
\* was answered with another status than 200 keeps its value, and so does a
\* target that is not in the run.
C5_StampOnlyAfterSuccess ==
  [][\A i \in 1..Len(file_data) :
       file_data'[i].last_backup /= file_data[i].last_backup =>
         /\ HasEnded(file_data[i].path, "ok")
         /\ ~HasEnded(file_data[i].path, "failed")
         /\ local[file_data[i].path].type /= "missing"]_vars

\* C5 witness: in one run a target has been stamped and another, whose sync
\* failed, has not
C5_Witness ==
  \E i, j \in 1..Len(file_data) :
    /\ file_data[i].last_backup > 0
    /\ HasEnded(file_data[i].path, "ok")
    /\ file_data[j].last_backup = 0
    /\ HasEnded(file_data[j].path, "failed")
    /\ queue = <<>>

\* C6: after a sync that a fault on an upload or a delete aborted, the next
\* sync of the unchanged directory without a fault ends with the remote
\* snapshot equal to the local one.
C6_NextSyncConverges ==
  \A w \in 1..MaxRuns :
    (/\ now = 2
     /\ SyncEnded(w)
     /\ \E i \in 1..Len(ui.summary.failed) :
          /\ ui.summary.failed[i].kind = "Network error"
          /\ ui.summary.failed[i].op \in {"upload", "delete"})
      => RemoteSnapshot(fs, _remote_dir_name(DIR_D)) = local[DIR_D].tree

\* the step is a delete request of the client's worker w
DeleteSent(w) ==
  /\ resp'.seq /= resp.seq
  /\ resp'.kind = "delete"
  /\ resp'.client = "app"
  /\ worker'[w] /= worker[w]

\* C7: in a sync no delete request is sent before every upload of the plan
\* has been sent and has succeeded, so no remote file has been removed while
\* a planned upload is pending.
C7_UploadsBeforeDeletes ==
  [][\A w \in 1..MaxRuns :
       /\ DeleteSent(w) =>
            /\ worker[w].uploaded = Len(worker[w].to_upload)
            /\ worker[w].k > Len(worker[w].to_upload)
       /\ worker'[w].deleted > 0 => worker'[w].uploaded = Len(worker'[w].to_upload)]_vars

\* C7 witness: a delete of the plan has been answered after an upload of it
C7_Witness ==
  \E w \in 1..MaxRuns :
    /\ worker[w].pc = "apply"
    /\ worker[w].uploaded > 0
    /\ worker[w].deleted > 0
    /\ resp.kind = "delete"

\* the step is a DELETE /file request the receiver has answered
DeleteAnswered ==
  /\ resp'.seq /= resp.seq
  /\ resp'.kind = "delete"
  /\ resp'.fault = "none"

\* C8: a DELETE /file for a file removes it and answers success; the same
\* request again is answered 404 and leaves the tree as it is; the client
\* takes the 404 for a success, so its sync goes on.
C8_DeleteIdempotent ==
  [][DeleteAnswered =>
       /\ isfile(fs, join(Root, resp'.path)) =>
            /\ resp'.status = 200
            /\ resp'.success
            /\ fs' = remove(fs, join(Root, resp'.path))
            /\ ~exists(fs', join(Root, resp'.path))
       /\ (resp.kind = "delete" /\ resp.path = resp'.path /\ resp.status = 200) =>
            /\ resp'.status = 404
            /\ fs' = fs
       /\ (resp'.client = "app" /\ resp'.status = 404) =>
            /\ outcome' = outcome
            /\ \E w \in 1..MaxRuns :
                 /\ worker'[w].pc = "apply"
                 /\ worker'[w].deleted = worker[w].deleted + 1]_vars

\* C8 witness: the sync of the directory has completed although the last
\* delete of its plan was answered 404, the file having been deleted before
C8_Witness ==
  /\ resp.kind = "delete"
  /\ resp.client = "app"
  /\ resp.status = 404
  /\ HasEnded(DIR_D, "ok")

\* the sub-path of each transport operation
SubPath(op) ==
  CASE op = "list" -> DIR_FILES_RULE
    [] op = "delete" -> FILE_RULE
    [] OTHER -> UPLOAD_RULE

\* C10: under each form of the configured endpoint every transport operation
\* requests the root followed by its own sub-path.
C10_RootPlusSubPath ==
  resp.client = "app" => resp.url = ORIGIN \o SubPath(resp.kind)

(***************************************************************************)
(* Properties of the listing                                               *)
(***************************************************************************)
\* the directory a served listing names: the resolver's result for a valid
\* relative directory, the root when the parameter is absent, empty or '.'
ListedDir(r) ==
  IF UsesResolver(r) THEN resolve_path_under_upload(ResolverParam(r)).full ELSE Root

\* C11: GET /dir_files for a valid relative directory (or for the root, when
\* none is named) answers success with no files when the directory does not
\* exist, a failure when the path is a
\* regular file, and otherwise exactly the regular files below the
\* directory, each once, by its '/'-separated path relative to the
\* directory and with its size; so a file uploaded under dir/p is listed
\* for dir under the key p.
C11_ListsFilesUnderDir ==
  (/\ resp.kind = "list"
   /\ UsesResolver(resp) => resolve_path_under_upload(ResolverParam(resp)).ok) =>
    /\ ~exists(fs, ListedDir(resp)) =>
         resp.status = 200 /\ resp.success /\ resp.files = <<>>
    /\ isfile(fs, ListedDir(resp)) =>
         ~resp.success /\ resp.status \in 400..499 /\ resp.files = <<>>
    /\ isdir(fs, ListedDir(resp)) =>
         /\ resp.status = 200 /\ resp.success
         /\ \A i \in 1..Len(resp.files) :
              /\ resp.files[i].path /= <<>>
              /\ resp.files[i].path[1] /= SLASH
              /\ isfile(fs, ListedDir(resp) \o <<SLASH>> \o resp.files[i].path)
              /\ resp.files[i].size =
                   fs.files[ListedDir(resp) \o <<SLASH>> \o resp.files[i].path]
         /\ \A i, j \in 1..Len(resp.files) :
              resp.files[i].path = resp.files[j].path => i = j
         /\ \A f \in DOMAIN fs.files :
              StartsWith(f, ListedDir(resp) \o <<SLASH>>) =>
                \E i \in 1..Len(resp.files) :
                  ListedDir(resp) \o <<SLASH>> \o resp.files[i].path = f

\* C11 witness: the listing of b, made after an upload under b/../a/b, has
\* answered the one key b of a
C11_Witness ==
  /\ resp.kind = "list"
  /\ resp.path = <<"a">>
  /\ isdir(fs, join(Root, <<"a">>))
  /\ Len(resp.files) = 1
  /\ resp.files[1].path = <<"b">>

(***************************************************************************)
(* Properties of the tracking list                                         *)
(***************************************************************************)
\* C12: the load of an array of bare path strings gives one record per
\* string, in the same order, with that path and no last_backup; the load
\* of an array of records gives the stored records; after a save, a load
\* gives back the list that was saved.
C12_LoadUpgradesAndRoundTrips ==
  /\ (resp.kind = "loaded" /\ data_file.list
      /\ \A i \in 1..Len(data_file.items) : data_file.items[i].type = "string") =>
       /\ Len(file_data) = Len(data_file.items)
       /\ \A i \in 1..Len(file_data) :
            /\ file_data[i].path = data_file.items[i].value
            /\ file_data[i].last_backup = 0
  /\ (resp.kind = "loaded" /\ data_file.list
      /\ \A i \in 1..Len(data_file.items) : data_file.items[i].type = "object") =>
       /\ Len(file_data) = Len(data_file.items)
       /\ \A i \in 1..Len(file_data) :
            /\ file_data[i].path = data_file.items[i].path
            /\ (file_data[i].last_backup = 0) = (data_file.items[i].last_backup.type = "null")
            /\ file_data[i].last_backup > 0 =>
                 file_data[i].last_backup = data_file.items[i].last_backup.value
            /\ file_data[i].added_date = data_file.items[i].added_date.value
  /\ resp.kind = "reloaded" => file_data = resp.saved

\* C12 witness: two bare strings have become two records, and the list is
\* back after a save and a load
C12_Witness ==
  /\ resp.kind = "reloaded"
  /\ Len(file_data) = 2
  /\ file_data[1] = [path |-> DIR_D, last_backup |-> 0, added_date |-> now]
  /\ file_data[2] = [path |-> FILE_F, last_backup |-> 0, added_date |-> now]

(***************************************************************************)
(* Properties of the backup run                                            *)
(***************************************************************************)
\* the tracked targets that exist, in list order: the targets of a run
Targets ==
  SelectSeq([i \in 1..Len(file_data) |-> file_data[i].path],
            LAMBDA path : local[path].type /= "missing")

Basenames(outcomes) ==
  [k \in 1..Len(outcomes) |-> basename(outcomes[k].path)]

\* the counts of a summary add up to the targets of the run
AddsUp(summary) ==
  /\ summary.successful + Len(summary.failed) = summary.total
  /\ summary.total = Len(Targets)

\* the names the failure list holds for the outcomes: one entry for each
\* failed target, in order, named by the final component of its path
FailuresOf(outcomes) ==
  Basenames(SelectSeq(outcomes, LAMBDA o : o.result = "failed"))

\* C13: a failed target does not stop the run: the targets are attempted
\* once each in list order, each is counted once, as a success or as an
\* entry of the failure list, and the summary shown has successful +
\* failures = N.
C13_EveryTargetCountedOnce ==
  /\ \A w \in 1..MaxRuns :
       worker[w].pc \in {"loop", "apply"} =>
         /\ worker[w].files = Targets
         /\ worker[w].index <= Len(worker[w].files)
         /\ worker[w].successful + Len(worker[w].failed) = worker[w].index
         /\ Len(outcome) = worker[w].index
         /\ \A j \in 1..Len(outcome) : outcome[j].path = worker[w].files[j]
         /\ FailuresOf(outcome) =
              [k \in 1..Len(worker[w].failed) |-> worker[w].failed[k].name]
  /\ \A i \in 1..Len(queue) : queue[i].op = "summary" => AddsUp(queue[i].arg)
  /\ ui.summary.total > 0 => AddsUp(ui.summary)

\* C13 witness: the summary of a run of two targets whose first failed and
\* whose second succeeded is shown
C13_Witness ==
  /\ ui.summary.total = 2
  /\ ui.summary.successful = 1
  /\ Len(ui.summary.failed) = 1
  /\ ui.summary.failed[1].name = basename(Targets[1])

\* the request of an item of the plan failed: what makes
\* upload_directory_file or delete_remote_file raise
ItemFailed(r) ==
  \/ r.fault /= "none"
  \/ r.kind = "upload" /\ (r.status /= 200 \/ ~r.success)
  \/ r.kind = "delete" /\ r.status \notin {200, 404}

\* the step is the request of an item of the plan of worker w
ItemSent(w) ==
  /\ resp'.seq /= resp.seq
  /\ resp'.kind \in {"upload", "delete"}
  /\ resp'.client = "app"
  /\ worker'[w] /= worker[w]

\* C14: in a directory sync the first item whose request fails ends the
\* sync: nothing of the plan is left to attempt, and perform_backup records
\* the directory as one failed target and goes on to the next target.
C14_FirstFailureEndsSync ==
  [][\A w \in 1..MaxRuns :
       (ItemSent(w) /\ ItemFailed(resp')) =>
         /\ worker'[w].pc = "loop"
         /\ worker'[w].to_upload = <<>> /\ worker'[w].to_delete = <<>>
         /\ worker'[w].index = worker[w].index + 1
         /\ worker'[w].successful = worker[w].successful
         /\ Len(worker'[w].failed) = Len(worker[w].failed) + 1
         /\ worker'[w].failed[Len(worker'[w].failed)].name =
              basename(worker[w].files[worker[w].index + 1])
         /\ outcome' = Append(outcome, [path |-> worker[w].files[worker[w].index + 1],
                                        result |-> "failed"])]_vars

\* C14 witness: the upload of d/s was answered 500, the directory is a
\* failed target, and the stale d/s/b the plan was to delete is still there
C14_Witness ==
  /\ resp.kind = "upload"
  /\ resp.status = 500
  /\ HasEnded(DIR_D, "failed")
  /\ isfile(fs, join(Root, <<"d", "/", "s", "/", "b">>))

\* C15: at most one worker runs at a time; when the trigger is enabled
\* again the previous worker has posted all of its notifications, and no
\* notification of an earlier run (the disabling of the progress bar) is
\* left to process once a later run is under way.
C15_OneWorkerAtATime ==
  /\ \A v, w \in 1..MaxRuns : (Running(v) /\ Running(w)) => v = w
  /\ ui.buttons = "normal" => \A w \in 1..MaxRuns : ~Running(w)
  /\ (\E w \in 1..MaxRuns : worker[w].pc \in {"loop", "apply"}) =>
       \A i \in 1..Len(queue) : queue[i].op /= "pbar"

\* C16: what a run changes of the status text, the progress value, the
\* tracking list, the persisted file, the summary, the buttons and the
\* progress bar is changed by the foreground thread when it takes the
\* notification at the head of the queue, no worker taking a step; the
\* workers only append to the queue, so notifications are taken in the
\* order they were posted.  (start_backup is the foreground thread itself.)
C16_ForegroundOnly ==
  [][/\ (ui' /= ui \/ file_data' /= file_data \/ data_file' /= data_file) =>
          \/ now' = now + 1
          \/ /\ worker' = worker
             /\ queue /= <<>>
             /\ queue' = Tail(queue)
             /\ ui'.progress /= ui.progress => Head(queue).op = "progress"
             /\ ui'.status /= ui.status => Head(queue).op \in {"status", "summary"}
             /\ ui'.summary /= ui.summary => Head(queue).op = "summary"
             /\ ui'.buttons /= ui.buttons => Head(queue).op = "buttons"
             /\ ui'.pbar /= ui.pbar => Head(queue).op = "pbar"
             /\ (file_data' /= file_data \/ data_file' /= data_file) =>
                  Head(queue).op = "backup_time"
     /\ queue' /= queue =>
          \/ queue /= <<>> /\ queue' = Tail(queue) /\ worker' = worker
          \/ /\ Len(queue') > Len(queue)
             /\ SubSeq(queue', 1, Len(queue)) = queue]_vars

\* C16 witness: the foreground has shown the status of an upload while the
\* sync goes on and later notifications wait in the queue
C16_Witness ==
  /\ ui.status.tag = "Uploading"
  /\ Len(queue) >= 2
  /\ \E w \in 1..MaxRuns : worker[w].pc = "apply" /\ worker[w].uploaded > 0

\* C17: every started run finishes: once start_backup has disabled the
\* trigger, the worker goes through all targets, whatever succeeds or
\* fails, the summary and the re-enabling are posted and processed, and the
\* trigger is enabled again.
C17_RunFinishes == (ui.buttons = "disabled") ~> (ui.buttons = "normal")

\* C17 witness: a run in which a target failed has ended, its summary is
\* shown and the trigger is enabled
C17_Witness ==
  /\ now >= 1
  /\ ui.buttons = "normal"
  /\ ui.summary.total > 0
  /\ ui.summary.failed /= <<>>
  /\ \A w \in 1..MaxRuns : worker[w].pc \in {"idle", "ended"}

\* the sync of the directory dir by worker w has just returned
JustSynced(w, dir) ==
  /\ worker[w].pc = "loop"
  /\ worker[w].index >= 1
  /\ worker[w].files[worker[w].index] = dir
  /\ outcome[worker[w].index] = [path |-> dir, result |-> "ok"]

\* C19: the remote directory name is the final component of the local path
\* alone, so two tracked directories with the same final component sync to
\* one remote directory; when the sync of one of them has succeeded the
\* remote directory holds that directory's snapshot and nothing else,
\* whatever the other had put there.
C19_SameNameCollides ==
  /\ DIR_D /= DIR_E
  /\ _remote_dir_name(DIR_D) = basename(DIR_D)
  /\ _remote_dir_name(DIR_E) = _remote_dir_name(DIR_D)
  /\ \A w \in 1..MaxRuns : \A dir \in {DIR_D, DIR_E} :
       JustSynced(w, dir) =>
         RemoteSnapshot(fs, _remote_dir_name(dir)) = local[dir].tree

\* C19 witness: both directories carry a last_backup and the remote
\* directory holds the second's snapshot: the file s of the first is gone
C19_Witness ==
  /\ Len(file_data) = 2
  /\ file_data[1].path = DIR_D /\ file_data[1].last_backup > 0
  /\ file_data[2].path = DIR_E /\ file_data[2].last_backup > 0
  /\ local[DIR_D].tree /= local[DIR_E].tree
  /\ RemoteSnapshot(fs, basename(DIR_D)) = local[DIR_E].tree
  /\ ~exists(fs, join(Root, <<"d", "/", "s">>))
  /\ resp.kind = "delete" /\ resp.status = 200

\* the one sync of the run of worker w has returned without an error
SyncedOk(w) ==
  /\ worker[w].pc = "loop"
  /\ worker[w].index = 1
  /\ worker[w].successful = 1

\* C18: two clients that sync different trees to the same remote directory
\* name are not serialized: their requests interleave, and when both syncs
\* have reported success the remote directory is some mix of the two trees:
\* every file it holds is a file of one of the trees, and a path both trees
\* have is there, but it need not equal either tree.
C18_ConcurrentSyncsMix ==
  /\ _remote_dir_name(DIR_E) = basename(DIR_D)
  /\ (SyncedOk(1) /\ SyncedOk(2)) =>
        /\ \A rel \in DOMAIN RemoteSnapshot(fs, basename(DIR_D)) :
             \E dir \in {DIR_D, DIR_E} :
               /\ rel \in DOMAIN local[dir].tree
               /\ RemoteSnapshot(fs, basename(DIR_D))[rel] = local[dir].tree[rel]
        /\ \A rel \in DOMAIN local[DIR_D].tree \cap DOMAIN local[DIR_E].tree :
             rel \in DOMAIN RemoteSnapshot(fs, basename(DIR_D))

\* C18 witness: both syncs have reported success and the remote directory
\* equals neither tree, which takes requests of the two that interleave
C18_Witness ==
  /\ SyncedOk(1) /\ SyncedOk(2)
  /\ local[DIR_D].tree /= local[DIR_E].tree
  /\ RemoteSnapshot(fs, basename(DIR_D)) /= local[DIR_D].tree
  /\ RemoteSnapshot(fs, basename(DIR_D)) /= local[DIR_E].tree
  /\ Len(outcome) = 2
  /\ \A j \in 1..2 : outcome[j].result = "ok"

\* none of the rejections the contract lists applies to the relative path
\* p, whose separators are '/'
NotListed(p) ==
  /\ p /= <<>>
  /\ \A i \in 1..Len(p) : p[i] /= BSLASH
  /\ ~isabs(p)
  /\ normpath(p) \notin {<<>>, <<DOT>>}
  /\ ~BeginsWithParent(p)

\* C20: the resolver rejects only the inputs the contract lists: a relative
\* path that is non-empty, does not normalize to "" or ".", is not absolute
\* and does not begin with a parent-directory segment resolves, whatever the
\* characters of its segment names, to the root joined with the normalized
\* path, and to the normalized path.
C20_RejectsOnlyListed ==
  (resp.kind = "resolve" /\ NotListed(resp.path)) =>
    /\ resp.result.ok
    /\ resp.result.full = join(Root, normpath(resp.path))
    /\ resp.result.norm = normpath(resp.path)

\* the remote paths a sync of local_dir may touch: those below the remote
\* directory of its name
OwnPath(local_dir, p) ==
  StartsWith(p, join(Root, _remote_dir_name(local_dir)) \o <<SLASH>>)

\* the regular file p is the same before and after the step
FileKept(p) ==
  /\ p \in DOMAIN fs.files
  /\ p \in DOMAIN fs'.files
  /\ fs'.files[p] = fs.files[p]

\* C21: a sync_directory call for the directory D creates, overwrites or
\* deletes only remote files whose path is <remote directory name of D>/
\* <relative path>: every step of the call leaves every other regular file
\* under the root as it was, whether the call goes on or aborts.
C21_SyncFrame ==
  [][\A w \in 1..MaxRuns :
       (worker[w].pc \in {"loop", "apply"} /\ worker[w].index < Len(worker[w].files)) =>
         \A p \in DOMAIN fs.files \cup DOMAIN fs'.files :
           OwnPath(worker[w].files[worker[w].index + 1], p) \/ FileKept(p)]_vars

====
